---- MODULE Spec2Model ----
(***************************************************************************)
(* A model of src/main.rs: the conversion of the models of a Magica Voxel  *)
(* file into Chisels and Bits pattern files.  One run of main is one       *)
(* behaviour: the command line, the voxel file and the block palette are   *)
(* chosen in Init, and the actions are the steps of main and of            *)
(* create_patterns.  A panic (expect, unwrap, index out of bounds) ends    *)
(* the run in pc = "panic"; the files written before it stay written.      *)
(***************************************************************************)
EXTENDS Integers, Sequences, FiniteSets, TLC

VARIABLES
    args,             \* Args: [all_models, models] (models = NoList or a list of usize)
    voxel_data,       \* dot_vox::DotVoxData: [models, palette]
    block_palette,    \* BlockPalette.mapping, in the order the HashMap yielded it
    pc,               \* position of the run
    panic,            \* the panic message once pc = "panic", "" before
    models,           \* main: the models to export, as indices into voxel_data.models
    i,                \* main: position of the export loop (0-based)
    model_data,       \* create_patterns: the written cells of the lookup array
    used_colors,      \* create_patterns: HashSet of used palette slots
    palette_mapping,  \* create_patterns: HashMap slot -> chisel palette index
    chisel_palette,   \* create_patterns: Vec<PaletteEntry>, as block names
    chunk,            \* create_patterns: passes of the chunk loop done so far
    index,            \* create_patterns: number of files written for this model
    files             \* every std::fs::write so far, in order

vars == <<args, voxel_data, block_palette, pc, panic, models, i, model_data,
          used_colors, palette_mapping, chisel_palette, chunk, index, files>>

(***************************************************************************)
(* Program constants                                                       *)
(***************************************************************************)
BLOCK_SIDE == 16

VOXEL_MAX_SIDE == 255

\* u8 arithmetic: values are taken modulo 2^8
U8 == 256

AIR == "minecraft:air"

\* Option<u8>::None in a cell of the lookup array, and the outcome of an
\* index past the end of the array (a panic in Rust)
None == -1

OutOfBounds == -2

\* args.model_group.models = None
NoList == <<-1>>

(***************************************************************************)
(* Pure functions                                                          *)
(***************************************************************************)
RECURSIVE Pow2(_)
Pow2(n) == IF n = 0 THEN 1 ELSE 2 * Pow2(n - 1)

\* f32 has a significand of 24 bits: F32_STEPS = 2^24 values per binade
F32_STEPS == 16777216

\* the spacing of the f32 values around n: the least power of two u with
\* n < 2^24 * u (1 for every n below 2^24, which f32 holds exactly)
RECURSIVE F32UlpFrom(_, _)
F32UlpFrom(n, u) == IF n \div u < F32_STEPS THEN u ELSE F32UlpFrom(n, 2 * u)

\* `n as f32`, as <<m, u>> with value m * u: n rounded to the nearest multiple
\* of the spacing, a tie going to the even multiple
AsF32(n) ==
    LET u == F32UlpFrom(n, 1)
        q == n \div u
        r == n % u
        up == 2 * r > u \/ (2 * r = u /\ q % 2 = 1)
    IN  <<IF up THEN q + 1 ELSE q, u>>

\* (a as f32 / b as f32).ceil() as usize for b = BLOCK_SIDE, a power of two,
\* by which the f32 division is exact.  The value m * u is only formed where
\* it is below 2^28; above, u is a multiple of b.
CeilDiv(a, b) ==
    LET f == AsF32(a)
    IN  IF f[2] % b = 0 THEN f[1] * (f[2] \div b)
        ELSE (f[1] * f[2] + b - 1) \div b

\* f32::log2(n as f32).ceil() as u32: the least w with 2^w >= n (n >= 1)
RECURSIVE CeilLog2From(_, _)
CeilLog2From(n, w) == IF Pow2(w) >= n THEN w ELSE CeilLog2From(n, w + 1)

\* a variant that takes the bit length of len itself
entry_width_bit_length(len) == CeilLog2From(len + 1, 0)

entry_width_of(len) == CeilLog2From(len, 0)

position_from_index(idx) ==
    LET x == idx \div (BLOCK_SIDE * BLOCK_SIDE)
        y == (idx - x * BLOCK_SIDE * BLOCK_SIDE) \div BLOCK_SIDE
        z == idx - x * BLOCK_SIDE * BLOCK_SIDE - y * BLOCK_SIDE
    IN  <<x % U8, y % U8, z % U8>>

index_from_position(x, y, z) ==
    x * VOXEL_MAX_SIDE * VOXEL_MAX_SIDE + y * VOXEL_MAX_SIDE + z

\* vec![None; VOXEL_MAX_SIDE * VOXEL_MAX_SIDE * VOXEL_MAX_SIDE].len()
ModelDataLen == VOXEL_MAX_SIDE * VOXEL_MAX_SIDE * VOXEL_MAX_SIDE

\* model[index]: the array is kept as the function of its written cells
Cell(md, idx) ==
    IF idx >= ModelDataLen THEN OutOfBounds
    ELSE IF idx \in DOMAIN md THEN md[idx]
    ELSE None

\* the loop over model.voxels of create_patterns; a write past the end panics
RECURSIVE WriteVoxels(_, _, _)
WriteVoxels(voxels, k, md) ==
    IF k > Len(voxels) THEN [ok |-> TRUE, data |-> md]
    ELSE LET v == voxels[k]
             idx == index_from_position(v.x, v.y, v.z)
         IN  IF idx >= ModelDataLen THEN [ok |-> FALSE, data |-> md]
             ELSE WriteVoxels(voxels, k + 1,
                      [c \in DOMAIN md \cup {idx} |-> IF c = idx THEN v.i ELSE md[c]])

UsedColors(voxels) == {voxels[k].i : k \in 1..Len(voxels)}

\* HashSet<u8> / HashMap iteration: every order of the elements is possible
Orders(S) ==
    {s \in [1..Cardinality(S) -> S] : \A a, b \in DOMAIN s : a # b => s[a] # s[b]}

(***************************************************************************)
(* BlockPalette                                                            *)
(***************************************************************************)
\* Ciede2000 difference of two Lch colours.  Colours are kept as points of a
\* one-dimensional scale and the difference is their distance on it.
Difference(a, b) == IF a >= b THEN a - b ELSE b - a

\* color_diffs.sort_by(total_cmp): a stable sort, as an insertion sort that
\* puts an element behind every element that is not greater
RECURSIVE InsertByDiff(_, _)
InsertByDiff(sorted, e) ==
    IF sorted = <<>> THEN <<e>>
    ELSE IF Head(sorted).diff <= e.diff
         THEN <<Head(sorted)>> \o InsertByDiff(Tail(sorted), e)
         ELSE <<e>> \o sorted

RECURSIVE SortByDiff(_)
SortByDiff(s) ==
    IF s = <<>> THEN <<>>
    ELSE InsertByDiff(SortByDiff(SubSeq(s, 1, Len(s) - 1)), s[Len(s)])

\* a variant that takes the other end of the sorted list
LastOf(sorted) == sorted[Len(sorted)]

\* color_diffs.first()
FirstOf(sorted) == sorted[1]

\* BlockPalette::closest_block; ok = FALSE is the panic of first().unwrap()
closest_block(mapping, color) ==
    LET color_diffs == [k \in 1..Len(mapping) |->
                          [diff |-> Difference(mapping[k].color, color),
                           block |-> mapping[k].block]]
        sorted == SortByDiff(color_diffs)
    IN  IF sorted = <<>> THEN [ok |-> FALSE, block |-> ""]
        ELSE [ok |-> TRUE, block |-> FirstOf(sorted).block]

(***************************************************************************)
(* create_patterns: the palette translation                                *)
(***************************************************************************)
\* a variant that takes the length after the push
MappedIndexAfterPush(len) == (len + 1) % U8

\* chisel_palette.len() as u8, the index a slot is mapped to
MappedIndex(len) == len % U8

\* the loop `for vox_palette_index in used_colors`, over one iteration order;
\* status is "ok", or the panic that ends it: palette.get(..).unwrap() for a
\* slot past the voxel palette, first().unwrap() for an empty block palette
RECURSIVE Translate(_, _, _, _, _, _)
Translate(order, k, vox_palette, mapping, pm, cp) ==
    IF k > Len(order) THEN [status |-> "ok", palette_mapping |-> pm, chisel_palette |-> cp]
    ELSE LET slot == order[k]
         IN  IF slot + 1 > Len(vox_palette)
             THEN [status |-> "create_patterns:114 unwrap on None", palette_mapping |-> pm, chisel_palette |-> cp]
             ELSE LET closest == closest_block(mapping, vox_palette[slot + 1])
                  IN  IF ~closest.ok
                      THEN [status |-> "closest_block:204 unwrap on None", palette_mapping |-> pm,
                            chisel_palette |-> cp]
                      ELSE Translate(order, k + 1, vox_palette, mapping,
                               [c \in DOMAIN pm \cup {slot} |->
                                   IF c = slot THEN MappedIndex(Len(cp)) ELSE pm[c]],
                               Append(cp, closest.block))

\* "Last entry is always air"
WithAir(cp) == Append(cp, AIR)

(***************************************************************************)
(* model_to_data                                                           *)
(***************************************************************************)
\* (palette.len() - 1) as u8
AirIndex(palette) == (Len(palette) - 1) % U8

\* the model coordinate read for local position <<x, y, z>> of the chunk at
\* offset: index_from_position(z + offset.0, x + offset.1, y + offset.2).
\* Offsets are multiples of 16 below 256 and locals are below 16, so the u8
\* additions never overflow.
ModelCoord(p, offset) == <<p[3] + offset[1], p[1] + offset[2], p[2] + offset[3]>>

\* let voxel = model[index] for position idx of the chunk at offset
VoxelAt(md, offset, idx) ==
    LET c == ModelCoord(position_from_index(idx), offset)
    IN  Cell(md, index_from_position(c[1], c[2], c[3]))

\* the value written for a cell: the mapped index of the voxel, the air
\* index for an empty cell
ValOf(voxel, palette, pm) ==
    IF voxel # None THEN pm[voxel] ELSE AirIndex(palette)

\* the bits of the u8 handed to writer.write: a wider entry_width is refused
U8_BITS == 8

\* bytes the BitWriter has put in the buffer after n writes of width bits
PackedLen(n, width) == (n * width) \div 8

TotalSize == BLOCK_SIDE * BLOCK_SIDE * BLOCK_SIDE

\* status: the panic that ends the loop (an index out of bounds at line 275,
\* or a write the BitWriter refuses at line 284, whichever position comes
\* first), "none" (only air) or "some".  writer.write(bits, val: u8) refuses
\* bits > 8 ("excessive bits for type written") and, for bits < 8, a value
\* of more than bits bits ("excessive value for bits written").  The loop
\* over the 4096 positions is evaluated once, into the positions whose cell
\* is not None; every other position writes the air index and counts for it.
model_to_data(md, palette, pm, offset) ==
    LET entry_width == entry_width_of(Len(palette))
        air == AirIndex(palette)
        present == {idx \in 0..(TotalSize - 1) : VoxelAt(md, offset, idx) # None}
        past == {idx \in present : VoxelAt(md, offset, idx) = OutOfBounds}
        stop == IF past = {} THEN TotalSize ELSE CHOOSE idx \in past : \A j \in past : idx <= j
        val(idx) == ValOf(VoxelAt(md, offset, idx), palette, pm)
        too_many_bits == entry_width > U8_BITS /\ stop > 0
        refused == /\ entry_width < U8_BITS
                   /\ \/ \E idx \in present : idx < stop /\ val(idx) >= Pow2(entry_width)
                      \/ /\ air >= Pow2(entry_width)
                         /\ Cardinality({idx \in present : idx < stop}) < stop
        count(k) == Cardinality({idx \in present : val(idx) = k})
                    + (IF k = air THEN TotalSize - Cardinality(present) ELSE 0)
        none == [status |-> "none", entry_width |-> entry_width, data_len |-> 0,
                 counts |-> <<>>]
    IN  IF too_many_bits
        THEN [none EXCEPT !.status = "model_to_data:284 excessive bits for type written"]
        ELSE IF refused
        THEN [none EXCEPT !.status = "model_to_data:284 excessive value for bits written"]
        ELSE IF past # {}
        THEN [none EXCEPT !.status = "model_to_data:275 index out of bounds"]
        ELSE IF present = {}
        THEN none
        ELSE [status |-> "some",
              entry_width |-> entry_width,
              data_len |-> PackedLen(TotalSize, entry_width),
              counts |-> [k \in 1..Len(palette) |-> count(k - 1)]]

(***************************************************************************)
(* create_patterns: the chunk loop                                         *)
(***************************************************************************)
\* <<length, width, height>>
ChunkCounts(size) ==
    <<CeilDiv(size[1], BLOCK_SIDE), CeilDiv(size[2], BLOCK_SIDE), CeilDiv(size[3], BLOCK_SIDE)>>

TotalChunks(size) ==
    LET c == ChunkCounts(size) IN c[1] * c[2] * c[3]

one_pattern(size) == ChunkCounts(size) = <<1, 1, 1>>

\* the n-th (0-based) <<x, y, z>> of `for x in 0..length { for y in 0..width {
\* for z in 0..height`
ChunkAt(size, n) ==
    LET c == ChunkCounts(size)
    IN  <<n \div (c[2] * c[3]), (n \div c[3]) % c[2], n % c[3]>>

\* ((x * BLOCK_SIDE) as u8, (y * BLOCK_SIDE) as u8, (z * BLOCK_SIDE) as u8)
OffsetOf(ch) ==
    <<(ch[1] * BLOCK_SIDE) % U8, (ch[2] * BLOCK_SIDE) % U8, (ch[3] * BLOCK_SIDE) % U8>>

\* File names are the list of the numbers appended to args.output with "_",
\* before the extension: <<>> is pattern.cbsbp, <<1, 0>> is pattern_1_0.cbsbp.
\* main: the prefix of the i-th exported model
PrefixOf(export_count, n) == IF export_count = 1 THEN <<>> ELSE <<n>>

\* create_patterns: output_file
OutputFile(path_prefix, one, idx) == IF one THEN path_prefix ELSE Append(path_prefix, idx)

\* a variant that counts every enumerated chunk
NextIndexEveryChunk(idx, written) == idx + 1

\* index += 1, reached only when a file was written
NextIndex(idx, written) == IF written THEN idx + 1 ELSE idx

(***************************************************************************)
(* The run                                                                 *)
(***************************************************************************)
CurrentModel == voxel_data.models[models[i + 1]]

\* main, lines 61-77: the choice of the models to export
\* models.get(index - 1) for a requested index: the model (1-based here) or None
GetModel(count, idx) ==
    IF idx >= 1 /\ idx - 1 < count THEN idx ELSE None

\* the messages the panic on the first bad requested index can carry: 0 - 1
\* panics in a build with overflow checks, and otherwise wraps to usize::MAX,
\* for which get returns None like for any index past the end
RequestPanics(idx) ==
    IF idx = 0 THEN {"main:70 attempt to subtract with overflow", "main:71 invalid model index"}
    ELSE {"main:71 invalid model index"}

SelectAll(count, all_models) == count = 1 \/ all_models

Panic(msg) ==
    /\ pc' = "panic"
    /\ panic' = msg

SelectModels ==
    /\ pc = "select"
    /\ LET model_count == Len(voxel_data.models)
       IN  IF SelectAll(model_count, args.all_models)
           THEN /\ models' = [k \in 1..model_count |-> k]
                /\ pc' = IF model_count = 0 THEN "done" ELSE "index"
                /\ panic' = panic
           ELSE IF args.models # NoList
           THEN LET got == [k \in 1..Len(args.models) |-> GetModel(model_count, args.models[k])]
                    bad == {k \in DOMAIN got : got[k] = None}
                IN  IF bad # {}
                    THEN /\ \E msg \in RequestPanics(
                                  args.models[CHOOSE k \in bad : \A j \in bad : k <= j]) :
                                Panic(msg)
                         /\ models' = models
                    ELSE /\ models' = got
                         /\ pc' = IF got = <<>> THEN "done" ELSE "index"
                         /\ panic' = panic
           ELSE /\ pc' = "exit"
                /\ models' = models
                /\ panic' = panic
    /\ UNCHANGED <<args, voxel_data, block_palette, i, model_data, used_colors,
                   palette_mapping, chisel_palette, chunk, index, files>>

\* create_patterns, lines 99-108: the lookup array and the used colours
BuildIndex ==
    /\ pc = "index"
    /\ LET w == WriteVoxels(CurrentModel.voxels, 1, <<>>)
       IN  IF w.ok
           THEN /\ model_data' = w.data
                /\ used_colors' = UsedColors(CurrentModel.voxels)
                /\ pc' = "palette"
                /\ panic' = panic
           ELSE /\ Panic("create_patterns:105 index out of bounds")
                /\ UNCHANGED <<model_data, used_colors>>
    /\ UNCHANGED <<args, voxel_data, block_palette, models, i, palette_mapping,
                   chisel_palette, chunk, index, files>>

\* create_patterns, lines 110-134: the chisel palette
TranslatePalette ==
    /\ pc = "palette"
    /\ \E order \in Orders(used_colors) :
          LET t == Translate(order, 1, voxel_data.palette, block_palette, <<>>, <<>>)
          IN  IF t.status = "ok"
              THEN /\ palette_mapping' = t.palette_mapping
                   /\ chisel_palette' = WithAir(t.chisel_palette)
                   /\ chunk' = 0
                   /\ index' = 0
                   /\ pc' = "chunks"
                   /\ panic' = panic
              ELSE /\ Panic(t.status)
                   /\ UNCHANGED <<palette_mapping, chisel_palette, chunk, index>>
    /\ UNCHANGED <<args, voxel_data, block_palette, models, i, model_data,
                   used_colors, files>>

\* create_patterns, lines 138-163: one pass of the body of the chunk loop
EncodeChunk ==
    /\ pc = "chunks"
    /\ chunk < TotalChunks(CurrentModel.size)
    /\ LET ch == ChunkAt(CurrentModel.size, chunk)
           r == model_to_data(model_data, chisel_palette, palette_mapping, OffsetOf(ch))
           written == r.status = "some"
       IN  IF r.status \notin {"some", "none"}
           THEN /\ Panic(r.status)
                /\ UNCHANGED <<chunk, index, files>>
           ELSE /\ files' = IF written
                            THEN Append(files,
                                   [name |-> OutputFile(PrefixOf(Len(models), i),
                                                 one_pattern(CurrentModel.size), index),
                                    export |-> i,
                                    chunk |-> ch,
                                    palette |-> chisel_palette,
                                    entry_width |-> r.entry_width,
                                    data_len |-> r.data_len,
                                    counts |-> r.counts])
                            ELSE files
                /\ index' = NextIndex(index, written)
                /\ chunk' = chunk + 1
                /\ UNCHANGED <<pc, panic>>
    /\ UNCHANGED <<args, voxel_data, block_palette, models, i, model_data,
                   used_colors, palette_mapping, chisel_palette>>

\* main, lines 80-88: create_patterns returns, the export loop goes on
NextModel ==
    /\ pc = "chunks"
    /\ chunk = TotalChunks(CurrentModel.size)
    /\ i' = i + 1
    /\ pc' = IF i + 1 = Len(models) THEN "done" ELSE "index"
    /\ UNCHANGED <<args, voxel_data, block_palette, panic, models, model_data,
                   used_colors, palette_mapping, chisel_palette, chunk, index, files>>

Next ==
    \/ SelectModels
    \/ BuildIndex
    \/ TranslatePalette
    \/ EncodeChunk
    \/ NextModel

(***************************************************************************)
(* The inputs of a run                                                     *)
(***************************************************************************)
MaxVoxels == 3

MaxGridVoxels == 2

MaxPalette == 2

MaxModels == 2

SeqsUpTo(S, n) == UNION {[1..k -> S] : k \in 0..n}

\* the palette slots the voxels of a run use
Slots == {0, 1, 2}

Blocks == {"minecraft:stone", "minecraft:dirt"}

Voxel(p, slot) == [x |-> p[1], y |-> p[2], z |-> p[3], i |-> slot]

Model(size, voxels) == [size |-> size, voxels |-> voxels]

\* the palette of the voxel file: slot k has colour k
DefaultVoxPalette == <<0, 1, 2>>

DefaultBlocks == <<[color |-> 0, block |-> "minecraft:stone"],
                   [color |-> 2, block |-> "minecraft:dirt"]>>

NoFlags == [all_models |-> FALSE, models |-> NoList]

Run(a, ms, vp, bp) ==
    [args |-> a, voxel_data |-> [models |-> ms, palette |-> vp], block_palette |-> bp]

\* one model of a single chunk whose voxels, side by side, have any slots
ColourRuns ==
    {Run(NoFlags,
         <<Model(<<16, 16, 16>>, [k \in DOMAIN slots |-> Voxel(<<k - 1, 0, 0>>, slots[k])])>>,
         DefaultVoxPalette, DefaultBlocks) :
        slots \in SeqsUpTo(Slots, MaxVoxels)}

\* one model of 2 x 2 x 2 chunks with voxels at the corners of some chunks
GridRuns ==
    {Run(NoFlags,
         <<Model(<<32, 32, 32>>, [k \in DOMAIN ps |-> Voxel(ps[k], 0)])>>,
         DefaultVoxPalette, DefaultBlocks) :
        ps \in SeqsUpTo({<<16, 0, 0>>, <<0, 16, 0>>, <<0, 0, 16>>},
                        MaxGridVoxels)}

\* models that reach coordinate 255, and a voxel palette without the slot used
EdgeRuns ==
    {Run(NoFlags, <<Model(<<16, 16, 256>>, vs)>>, DefaultVoxPalette, DefaultBlocks) :
        vs \in {<<>>, <<Voxel(<<0, 1, 0>>, 0)>>, <<Voxel(<<0, 0, 255>>, 0)>>,
                <<Voxel(<<0, 0, 0>>, 0), Voxel(<<0, 0, 0>>, 1)>>}}
    \cup
    {Run(NoFlags, <<Model(<<256, 16, 16>>, vs)>>, DefaultVoxPalette, DefaultBlocks) :
        vs \in {<<Voxel(<<0, 0, 0>>, 0)>>, <<Voxel(<<255, 0, 0>>, 0)>>}}
    \cup
    {Run(NoFlags, <<Model(<<16, 16, 16>>, <<Voxel(<<0, 0, 0>>, 1)>>)>>, <<0>>, DefaultBlocks)}

\* one voxel of colour 1 against every short block palette
PaletteRuns ==
    {Run(NoFlags, <<Model(<<16, 16, 16>>, <<Voxel(<<0, 0, 0>>, 1)>>)>>,
         DefaultVoxPalette, bp) :
        bp \in SeqsUpTo([color : Slots, block : Blocks], MaxPalette)}

\* files of several different models, under every choice of -a and -m
FileModels ==
    {Model(<<16, 16, 16>>, <<Voxel(<<0, 0, 0>>, 0)>>),
     Model(<<32, 16, 16>>, <<Voxel(<<16, 0, 0>>, 0)>>),
     Model(<<256, 16, 16>>, <<Voxel(<<255, 0, 0>>, 0)>>)}

ArgsSet ==
    {NoFlags, [all_models |-> TRUE, models |-> NoList]}
    \cup {[all_models |-> FALSE, models |-> m] :
             m \in {<<a>> : a \in 0..(MaxModels + 1)}
                   \cup {<<a, b>> : a, b \in 0..(MaxModels + 1)}}

FileRuns ==
    {Run(a, ms, DefaultVoxPalette, DefaultBlocks) :
        a \in ArgsSet,
        ms \in {m \in UNION {[1..k -> FileModels] : k \in 1..MaxModels} :
                  \A a1, a2 \in DOMAIN m : a1 # a2 => m[a1] # m[a2]}}

Runs == ColourRuns \cup GridRuns \cup EdgeRuns \cup PaletteRuns \cup FileRuns

Init ==
    /\ \E run \in Runs :
          /\ args = run.args
          /\ voxel_data = run.voxel_data
          /\ block_palette = run.block_palette
    /\ pc = "select"
    /\ panic = ""
    /\ models = <<>>
    /\ i = 0
    /\ model_data = <<>>
    /\ used_colors = {}
    /\ palette_mapping = <<>>
    /\ chisel_palette = <<>>
    /\ chunk = 0
    /\ index = 0
    /\ files = <<>>

Spec == Init /\ [][Next]_vars

(***************************************************************************)
(* What the claims speak of, read from the inputs of the run               *)
(***************************************************************************)
\* the model of the e-th export (0-based)
ExportedModel(e) == voxel_data.models[models[e + 1]]

FilesOf(e) == SelectSeq(files, LAMBDA f : f.export = e)

PositionsOf(m) == {<<m.voxels[k].x, m.voxels[k].y, m.voxels[k].z>> : k \in DOMAIN m.voxels}

\* the slot of the voxel the voxel list holds at p (the last one listed)
SlotAt(m, p) ==
    LET ks == {k \in DOMAIN m.voxels : <<m.voxels[k].x, m.voxels[k].y, m.voxels[k].z>> = p}
    IN  m.voxels[CHOOSE k \in ks : \A j \in ks : j <= k].i

SlotsOf(m) == {m.voxels[k].i : k \in DOMAIN m.voxels}

InCreatePatterns == pc \in {"palette", "chunks"}

ModelFinished == pc = "chunks" /\ chunk = TotalChunks(CurrentModel.size)

RECURSIVE SumSeq(_)
SumSeq(q) == IF q = <<>> THEN 0 ELSE Head(q) + SumSeq(Tail(q))

ProbeCoords == {0, 1, 254, 255}

(***************************************************************************)
(* C1                                                                      *)
(***************************************************************************)
\* C1: once the lookup array of a model is built, looking up a coordinate
\* (x, y, z) gives Some(slot) exactly when the model has a voxel at (x, y, z),
\* with the slot of that voxel, and None otherwise (never the value written
\* for another coordinate, never an index past the array).
C1_LookupFaithful ==
    InCreatePatterns =>
        \A x, y, z \in ProbeCoords :
            Cell(model_data, index_from_position(x, y, z))
                = IF <<x, y, z>> \in PositionsOf(CurrentModel)
                  THEN SlotAt(CurrentModel, <<x, y, z>>)
                  ELSE None

(***************************************************************************)
(* C2                                                                      *)
(***************************************************************************)
RequestOutOfRange ==
    /\ args.models # NoList
    /\ \E k \in DOMAIN args.models : args.models[k] \notin 1..Len(voxel_data.models)

\* C2: when the -m list holds an index outside 1..N, the run fails with an
\* error and writes no pattern file: no model is ever exported, also when
\* N = 1 or the index is 0.
C2_BadRequestFails ==
    RequestOutOfRange => pc \in {"select", "panic"} /\ files = <<>>

(***************************************************************************)
(* C3                                                                      *)
(***************************************************************************)
InputErrors ==
    {"create_patterns:105 index out of bounds",
     "create_patterns:114 unwrap on None",
     "closest_block:204 unwrap on None"}

\* C3: a run that aborts on an empty material palette, on a voxel coordinate
\* outside the supported range or on a colour slot that is not in the palette
\* has written no pattern file before the abort.
C3_ErrorsBeforeAnyFile ==
    pc = "panic" /\ panic \in InputErrors => files = <<>>

(***************************************************************************)
(* C4                                                                      *)
(***************************************************************************)
LexLess(a, b) ==
    \/ a[1] < b[1]
    \/ a[1] = b[1] /\ a[2] < b[2]
    \/ a[1] = b[1] /\ a[2] = b[2] /\ a[3] < b[3]

\* C4: the files of a model are written in the order x outermost, y middle,
\* z innermost of their chunks; a model of exactly one chunk writes
\* <prefix>.cbsbp, and any other model writes <prefix>_<k>.cbsbp, k being the
\* 0-based position of the file among the files of the model, so that the
\* suffixes are 0, 1, ..., n-1 in the order of writing.
C4_OutputNaming ==
    \A e \in 0..(Len(models) - 1) :
        LET fs == FilesOf(e)
            prefix == IF Len(models) = 1 THEN <<>> ELSE <<e>>
        IN  /\ \A k \in 1..(Len(fs) - 1) : LexLess(fs[k].chunk, fs[k + 1].chunk)
            /\ IF TotalChunks(ExportedModel(e).size) = 1
               THEN \A k \in DOMAIN fs : fs[k].name = prefix
               ELSE \A k \in DOMAIN fs : fs[k].name = prefix \o <<k - 1>>

\* a model of several chunks wrote two files after passing over an empty chunk
C4_Witness ==
    /\ Len(files) = 2
    /\ files[1].export = files[2].export
    /\ files[1].chunk # <<0, 0, 0>>
    /\ files[1].chunk[1] < files[2].chunk[1]
    /\ files[2].name = <<1>>

(***************************************************************************)
(* C5                                                                      *)
(***************************************************************************)
\* the n-th chunk of model m holds a voxel of m
ChunkHoldsVoxel(m, n) ==
    \E p \in PositionsOf(m) :
        <<p[1] \div BLOCK_SIDE, p[2] \div BLOCK_SIDE, p[3] \div BLOCK_SIDE>> = ChunkAt(m.size, n)

\* C5: model_to_data returns None for a chunk of air only and Some for a chunk
\* that holds a voxel, so the files written for a model are one per
\* enumerated chunk that holds at least one voxel.
C5_FilePerNonEmptyChunk ==
    /\ panic \notin {"model_to_data:275 index out of bounds",
                     "model_to_data:284 excessive bits for type written",
                     "model_to_data:284 excessive value for bits written"}
    /\ pc = "chunks" =>
          LET fs == FilesOf(i)
          IN  {fs[k].chunk : k \in DOMAIN fs}
                = {ChunkAt(CurrentModel.size, n) :
                       n \in {n \in 0..(chunk - 1) : ChunkHoldsVoxel(CurrentModel, n)}}

(***************************************************************************)
(* C6                                                                      *)
(***************************************************************************)
\* C6: the chisel palette of a model has one entry per distinct used slot
\* plus one, its last entry is air, the used slots are mapped to distinct
\* indices in 0..length-2, an empty position is written as the air index
\* length-1, which no used slot is mapped to, and every file of the model
\* carries this same palette.
C6_SharedPalette ==
    pc = "chunks" =>
        LET len == Len(chisel_palette)
            used == SlotsOf(CurrentModel)
            fs == FilesOf(i)
        IN  /\ len = Cardinality(used) + 1
            /\ chisel_palette[len] = AIR
            /\ DOMAIN palette_mapping = used
            /\ \A a \in used : palette_mapping[a] \in 0..(len - 2)
            /\ \A a, b \in used : a # b => palette_mapping[a] # palette_mapping[b]
            /\ ValOf(None, chisel_palette, palette_mapping) = len - 1
            /\ \A a \in used : ValOf(a, chisel_palette, palette_mapping) # len - 1
            /\ \A k \in DOMAIN fs : fs[k].palette = chisel_palette

\* a model of three used slots has written a file
C6_Witness ==
    /\ pc = "chunks"
    /\ Cardinality(SlotsOf(CurrentModel)) = 3
    /\ Len(chisel_palette) = 4
    /\ FilesOf(i) # <<>>

(***************************************************************************)
(* C7                                                                      *)
(***************************************************************************)
\* C7: a written chunk of palette length L >= 2 uses w = ceil(log2(L)) bits
\* per index (2^(w-1) < L <= 2^w), every index written fits in w bits, and
\* the packed buffer has ceil(4096 * w / 8) bytes.
C7_BitWidth ==
    /\ panic # "model_to_data:284 excessive value for bits written"
    /\ \A k \in DOMAIN files :
          LET f == files[k]
              len == Len(f.palette)
              w == f.entry_width
          IN  len >= 2 =>
                /\ Pow2(w) >= len
                /\ w >= 1
                /\ Pow2(w - 1) < len
                /\ \A v \in DOMAIN f.counts : f.counts[v] > 0 => v - 1 < Pow2(w)
                /\ f.data_len = (4096 * w + 7) \div 8

\* a file whose palette length is no power of two
C7_Witness ==
    \E k \in DOMAIN files :
        /\ Len(files[k].palette) = 3
        /\ files[k].entry_width = 2
        /\ files[k].data_len = 1024
        /\ files[k].counts[3] > 0

(***************************************************************************)
(* C8                                                                      *)
(***************************************************************************)
\* C8: for a non-empty block palette, the block chosen for a colour is the
\* block of an entry whose difference to the colour is less than or equal to
\* the difference of every entry.
C8_ClosestBlock ==
    pc = "chunks" =>
        \A slot \in DOMAIN palette_mapping :
            LET color == voxel_data.palette[slot + 1]
                chosen == chisel_palette[palette_mapping[slot] + 1]
            IN  \E k \in DOMAIN block_palette :
                    /\ block_palette[k].block = chosen
                    /\ \A j \in DOMAIN block_palette :
                          Difference(block_palette[k].color, color)
                              <= Difference(block_palette[j].color, color)

\* the block chosen is that of the second entry, which is strictly closer
C8_Witness ==
    /\ pc = "chunks"
    /\ Len(block_palette) = 2
    /\ block_palette[1].block # block_palette[2].block
    /\ \E slot \in DOMAIN palette_mapping :
          /\ Difference(block_palette[2].color, voxel_data.palette[slot + 1])
                < Difference(block_palette[1].color, voxel_data.palette[slot + 1])
          /\ chisel_palette[palette_mapping[slot] + 1] = block_palette[2].block

(***************************************************************************)
(* C10                                                                     *)
(***************************************************************************)
NonAir(f) == SumSeq(SubSeq(f.counts, 1, Len(f.counts) - 1))

\* C10: every voxel is encoded exactly once: the counts of each written chunk
\* sum to 4096, and when the chunk loop of a model ends, the non-air counts
\* of its files sum to the number of distinct voxel positions of the model.
C10_EveryVoxelOnce ==
    /\ \A k \in DOMAIN files : SumSeq(files[k].counts) = TotalSize
    /\ ModelFinished =>
          LET fs == FilesOf(i)
          IN  SumSeq([k \in DOMAIN fs |-> NonAir(fs[k])])
                = Cardinality(PositionsOf(CurrentModel))

====
